---- MODULE Spec2Model ----
(***************************************************************************)
(* Model of osint.js: the four source adapters (duckDuckGoSearch,          *)
(* ipGeolocation, rdapLookup, dnsRecords) as asynchronous calls whose      *)
(* steps are the settlements of the transport primitives they await, and   *)
(* the two pure helpers normalizePhone and looksLikeIP as operators on     *)
(* strings (sequences of one-character strings).                           *)
(***************************************************************************)
EXTENDS Integers, Sequences, FiniteSets, TLC

VARIABLES
    raw,        \* normalizePhone: the argument
    norm,       \* normalizePhone(raw), once called
    again,      \* normalizePhone(norm.e164), once called
    q,          \* looksLikeIP: the argument
    isIP,       \* looksLikeIP(q), once called
    pc,         \* position of the adapter call: idle, fetch, body, dns, done
    adapter,    \* the adapter that was called
    maxResults, \* duckDuckGoSearch: second argument
    requests,   \* the fetch() calls issued by the adapter call, in order
    res,        \* the Response fetch() resolved with
    err,        \* the error caught by the adapter's catch block
    result,     \* the value the adapter's promise settled with
    settled,    \* pending, resolved or rejected
    fate,       \* dnsRecords: what the resolver does with each record type
    out,        \* dnsRecords: the mapping under construction
    inflight,   \* dnsRecords: resolutions issued and not yet settled
    queried     \* dnsRecords: record types queried so far, in order

phoneVars == <<raw, norm, again>>
ipVars == <<q, isIP>>
netVars == <<pc, adapter, maxResults, requests, res, err, result, settled,
             fate, out, inflight, queried>>
vars == <<raw, norm, again, q, isIP, pc, adapter, maxResults, requests, res,
          err, result, settled, fate, out, inflight, queried>>

(***************************************************************************)
(* Bounds                                                                  *)
(***************************************************************************)
MaxRawLen == 4
MaxQueryLen == 7
MaxTokens == 4
MaxResultsBound == 2

(***************************************************************************)
(* Strings                                                                 *)
(***************************************************************************)
Strings(alphabet, n) == UNION {[1..k -> alphabet] : k \in 0..n}

Digits == {"0", "1", "2", "3", "4", "5", "6", "7", "8", "9"}

startsWith(s, p) == Len(s) >= Len(p) /\ SubSeq(s, 1, Len(p)) = p

Null == [type |-> "null"]
Pending == [type |-> "pending"]

(***************************************************************************)
(* normalizePhone                                                          *)
(***************************************************************************)
PhoneChars == {"0", "1", "+", "-", " "}
NullRaw == <<"null">>
RawInputs == Strings(PhoneChars, MaxRawLen) \cup {NullRaw}

RECURSIVE trimStart(_)
trimStart(s) ==
    IF s # <<>> /\ Head(s) = " " THEN trimStart(Tail(s)) ELSE s

RECURSIVE trimEnd(_)
trimEnd(s) ==
    IF s # <<>> /\ s[Len(s)] = " " THEN trimEnd(SubSeq(s, 1, Len(s) - 1)) ELSE s

trim(s) == trimEnd(trimStart(s))

\* s.replace(/[^\d+]/g, "")
RECURSIVE removeNonDigitPlus(_)
removeNonDigitPlus(s) ==
    IF s = <<>> THEN <<>>
    ELSE IF Head(s) \in Digits \cup {"+"}
         THEN <<Head(s)>> \o removeNonDigitPlus(Tail(s))
         ELSE removeNonDigitPlus(Tail(s))

RECURSIVE dropLeadingPlus(_)
dropLeadingPlus(s) ==
    IF s # <<>> /\ Head(s) = "+" THEN dropLeadingPlus(Tail(s)) ELSE s

\* s.replace(/^(\+)+/, "+")
collapseLeadingPlus(s) ==
    IF s # <<>> /\ Head(s) = "+" THEN <<"+">> \o dropLeadingPlus(s) ELSE s

\* if (s.startsWith("00")) s = "+" + s.slice(2)
rewriteIntlPrefix(s) ==
    IF startsWith(s, <<"0", "0">>) THEN <<"+">> \o SubSeq(s, 3, Len(s)) ELSE s

\* s.replace(/\D/g, "")
RECURSIVE removeNonDigit(_)
removeNonDigit(s) ==
    IF s = <<>> THEN <<>>
    ELSE IF Head(s) \in Digits
         THEN <<Head(s)>> \o removeNonDigit(Tail(s))
         ELSE removeNonDigit(Tail(s))

e164OfDigitsOnly(s, digits) == digits

\* s.startsWith("+") ? "+" + digits : digits
e164Of(s, digits) ==
    IF startsWith(s, <<"+">>) THEN <<"+">> \o digits ELSE digits

cleanedOf(r) ==
    rewriteIntlPrefix(collapseLeadingPlus(removeNonDigitPlus(trim(r))))

normalizePhone(r) ==
    IF r = NullRaw \/ r = <<>> THEN Null
    ELSE LET s == cleanedOf(r)
             digits == removeNonDigit(s)
         IN  [type |-> "object", raw |-> r, cleaned |-> s, digits |-> digits,
              e164 |-> e164Of(s, digits)]

(***************************************************************************)
(* looksLikeIP                                                             *)
(***************************************************************************)
QueryChars == {"1", ".", ":", "a"}
Queries == Strings(QueryChars, MaxQueryLen)

\* /^[0-9]+\.[0-9]+\.[0-9]+\.[0-9]+$/ run as an automaton over the string:
\* g is the group being read (1..4), inGroup tells whether the group
\* already has a digit.
RECURSIVE matchDottedQuad(_, _, _)
matchDottedQuad(s, g, inGroup) ==
    IF s = <<>> THEN g = 4 /\ inGroup
    ELSE IF Head(s) \in Digits THEN matchDottedQuad(Tail(s), g, TRUE)
    ELSE IF Head(s) = "." /\ inGroup /\ g < 4
         THEN matchDottedQuad(Tail(s), g + 1, FALSE)
    ELSE FALSE

includes(s, c) == \E i \in 1..Len(s) : s[i] = c

looksLikeIPNoColon(s) ==
    [type |-> "boolean", value |-> matchDottedQuad(s, 1, FALSE)]

looksLikeIP(s) ==
    [type |-> "boolean",
     value |-> matchDottedQuad(s, 1, FALSE) \/ includes(s, ":")]

(***************************************************************************)
(* Transport: what fetch() can resolve with                                *)
(***************************************************************************)
\* A fetched page is a sequence of markup tokens: the result-container
\* opener '<div class="result' and anchor tags.  cls tells that the tag has
\* class result__a in front of its href; href is "none" for an anchor
\* without href.  Anchors have no text and pages no snippet element.
Hrefs == {"h1", "h2"}
Div == [tag |-> "div", cls |-> FALSE, href |-> "none"]
Anchors == {[tag |-> "a", cls |-> c, href |-> h] : c \in BOOLEAN, h \in Hrefs}
               \cup {[tag |-> "a", cls |-> FALSE, href |-> "none"]}
Tokens == {Div} \cup Anchors
Pages == Strings(Tokens, MaxTokens)

\* A body is read as text (its page) or parsed as JSON (a document, or
\* "invalid" when JSON.parse throws).
JsonDocs == {"J1", "J2"}
Bodies == {[json |-> "invalid", page |-> p] : p \in Pages}
              \cup {[json |-> j, page |-> <<>>] : j \in JsonDocs}
Responses == [ok : BOOLEAN, body : Bodies]
NoResponse == [none |-> TRUE]

FetchErrors == {"fetch failed"}
BodyErrors == {"terminated"}
SyntaxError == "Unexpected token"

Request(host, path) == [host |-> host, path |-> path]

(***************************************************************************)
(* duckDuckGoSearch                                                        *)
(***************************************************************************)
\* text.split('<div class="result')
RECURSIVE split(_, _)
split(text, current) ==
    IF text = <<>> THEN <<current>>
    ELSE IF Head(text) = Div THEN <<current>> \o split(Tail(text), <<>>)
    ELSE split(Tail(text), Append(current, Head(text)))

RECURSIVE firstHref(_, _)
firstHref(part, needClass) ==
    IF part = <<>> THEN "none"
    ELSE IF Head(part).href # "none" /\ (needClass => Head(part).cls)
         THEN Head(part).href
         ELSE firstHref(Tail(part), needClass)

\* part.match(/<a[^>]*class="[^"]*result__a[^"]*"[^>]*href="([^"]+)"/i)
\*   || part.match(/<a[^>]*href="([^"]+)"[^>]*>/i)
hrefMatch(part) ==
    IF firstHref(part, TRUE) # "none" THEN firstHref(part, TRUE)
    ELSE firstHref(part, FALSE)

RECURSIVE collectNoLimit(_, _, _)
collectNoLimit(parts, results, max) ==
    IF parts = <<>> THEN results
    ELSE LET href == hrefMatch(Head(parts))
         IN  collectNoLimit(Tail(parts),
                 IF href # "none"
                 THEN Append(results,
                          [title |-> href, snippet |-> "", link |-> href])
                 ELSE results,
                 max)

\* for (const part of parts.slice(1)) { if (results.length >= maxResults) break; ... }
RECURSIVE collect(_, _, _)
collect(parts, results, max) ==
    IF parts = <<>> \/ Len(results) >= max THEN results
    ELSE LET href == hrefMatch(Head(parts))
         IN  collect(Tail(parts),
                 IF href # "none"
                 THEN Append(results,
                          [title |-> href, snippet |-> "", link |-> href])
                 ELSE results,
                 max)

extractResultsNoLimit(text, max) ==
    collectNoLimit(Tail(split(text, <<>>)), <<>>, max)

extractResults(text, max) == collect(Tail(split(text, <<>>)), <<>>, max)

duckDuckGoSearch_catch(e) == [settled |-> "resolved", value |-> <<>>]

(***************************************************************************)
(* ipGeolocation, rdapLookup                                               *)
(***************************************************************************)
ipGeolocation_rethrow(e) == [settled |-> "rejected", value |-> e]

ipGeolocation_catch(e) ==
    [settled |-> "resolved", value |-> [status |-> "fail", message |-> e]]

rdapLookup_catch(e) == [settled |-> "resolved", value |-> Null]

rdapLookup_ignoreStatus(r) == FALSE

\* if (!res.ok) return null;
rdapLookup_returnsEarly(r) == ~r.ok

catch(a, e) ==
    CASE a = "duckDuckGoSearch" -> duckDuckGoSearch_catch(e)
      [] a = "ipGeolocation" -> ipGeolocation_catch(e)
      [] a = "rdapLookup" -> rdapLookup_catch(e)

HttpAdapters == {"duckDuckGoSearch", "ipGeolocation", "rdapLookup"}

(***************************************************************************)
(* dnsRecords                                                              *)
(***************************************************************************)
RecordTypes == {"A", "AAAA", "MX", "TXT", "NS", "CNAME"}
Order == <<"A", "AAAA", "MX", "TXT", "NS", "CNAME">>
IndexOf(t) == CHOOSE i \in 1..Len(Order) : Order[i] = t

\* What the resolver does with a query: "ok" resolves with the records,
\* "reject" rejects the promise, "throw" throws out of the resolve call
\* itself, "hang" never settles.
Fates == {"ok", "reject", "throw", "hang"}
NoFate == [t \in RecordTypes |-> "unasked"]
Answer(t) == <<[type |-> t, data |-> "rr"]>>
EmptyOut == [t \in {} |-> <<>>]

\* The run of statements from the i-th try block up to the next await that
\* suspends: a resolve call that throws stores [] and falls through to the
\* next statement; the first call that returns a promise is left in flight;
\* past the last statement the function returns out.
RECURSIVE runFromAbortOnThrow(_, _, _)
runFromAbortOnThrow(i, o, f) ==
    IF i > Len(Order) THEN [out |-> o, issued |-> {}, asked |-> <<>>, returned |-> TRUE]
    ELSE IF f[Order[i]] = "throw"
         THEN [out |-> o, issued |-> {}, asked |-> <<Order[i]>>, returned |-> TRUE]
         ELSE [out |-> o, issued |-> {Order[i]}, asked |-> <<Order[i]>>,
               returned |-> FALSE]

RECURSIVE runFromAllAtOnce(_, _, _)
runFromAllAtOnce(i, o, f) ==
    IF i > Len(Order) THEN [out |-> o, issued |-> {}, asked |-> <<>>, returned |-> TRUE]
    ELSE IF f[Order[i]] = "throw"
         THEN LET r == runFromAllAtOnce(i + 1, (Order[i] :> <<>>) @@ o, f)
              IN  [r EXCEPT !.asked = <<Order[i]>> \o r.asked]
         ELSE LET r == runFromAllAtOnce(i + 1, o, f)
              IN  [out |-> r.out, issued |-> {Order[i]} \cup r.issued,
                   asked |-> <<Order[i]>> \o r.asked, returned |-> FALSE]

RECURSIVE runFrom(_, _, _)
runFrom(i, o, f) ==
    IF i > Len(Order) THEN [out |-> o, issued |-> {}, asked |-> <<>>, returned |-> TRUE]
    ELSE IF f[Order[i]] = "throw"
         THEN LET r == runFrom(i + 1, (Order[i] :> <<>>) @@ o, f)
              IN  [r EXCEPT !.asked = <<Order[i]>> \o r.asked]
         ELSE [out |-> o, issued |-> {Order[i]}, asked |-> <<Order[i]>>,
               returned |-> FALSE]

dnsContinueAbortOnThrow(i, o, f) == runFromAbortOnThrow(i, o, f)

dnsContinueAllAtOnce(i, o, f) == runFromAllAtOnce(i, o, f)

dnsContinue(i, o, f) == runFrom(i, o, f)

\* .catch(() => [])
dnsRejectedValue(t) == <<>>

(***************************************************************************)
(* Initial state                                                           *)
(***************************************************************************)
PhoneIdle == raw = <<>> /\ norm = Pending /\ again = Pending
IPIdle == q = <<>> /\ isIP = Pending
NetIdle ==
    /\ pc = "idle"
    /\ adapter = "none"
    /\ maxResults = 0
    /\ requests = <<>>
    /\ res = NoResponse
    /\ err = "none"
    /\ result = Pending
    /\ settled = "pending"
    /\ fate = NoFate
    /\ out = EmptyOut
    /\ inflight = {}
    /\ queried = <<>>

Init == PhoneIdle /\ IPIdle /\ NetIdle

(***************************************************************************)
(* Adapter calls                                                           *)
(***************************************************************************)
Return(o, e) ==
    /\ pc' = "done"
    /\ result' = o.value
    /\ settled' = o.settled
    /\ err' = e

\* duckDuckGoSearch(query, maxResults) up to its first await
CallDuckDuckGoSearch(m) ==
    /\ pc = "idle"
    /\ adapter' = "duckDuckGoSearch"
    /\ maxResults' = m
    /\ requests' = Append(requests, Request("html.duckduckgo.com", "html"))
    /\ pc' = "fetch"
    /\ UNCHANGED <<res, err, result, settled, fate, out, inflight, queried>>
    /\ UNCHANGED <<phoneVars, ipVars>>

\* ipGeolocation(ip) up to its first await
CallIpGeolocation ==
    /\ pc = "idle"
    /\ adapter' = "ipGeolocation"
    /\ requests' = Append(requests, Request("ip-api.com", "json"))
    /\ pc' = "fetch"
    /\ UNCHANGED <<maxResults, res, err, result, settled, fate, out, inflight,
                   queried>>
    /\ UNCHANGED <<phoneVars, ipVars>>

\* rdapLookup(kind, name) up to its first await
CallRdapLookup(kind) ==
    /\ pc = "idle"
    /\ adapter' = "rdapLookup"
    /\ requests' = Append(requests,
                       Request("rdap.org", IF kind = "ip" THEN "ip" ELSE "domain"))
    /\ pc' = "fetch"
    /\ UNCHANGED <<maxResults, res, err, result, settled, fate, out, inflight,
                   queried>>
    /\ UNCHANGED <<phoneVars, ipVars>>

\* await fetch(...) rejects: the adapter's catch block runs
FetchRejects(e) ==
    /\ pc = "fetch"
    /\ Return(catch(adapter, e), e)
    /\ UNCHANGED <<adapter, maxResults, requests, res, fate, out, inflight,
                   queried>>
    /\ UNCHANGED <<phoneVars, ipVars>>

\* await fetch(...) resolves with a Response: rdapLookup tests res.ok, every
\* adapter then starts reading the body
FetchResolves ==
    /\ pc = "fetch"
    /\ \E r \in Responses :
           /\ res' = r
           /\ IF adapter = "rdapLookup" /\ rdapLookup_returnsEarly(r)
              THEN Return([settled |-> "resolved", value |-> Null], err)
              ELSE pc' = "body" /\ UNCHANGED <<result, settled, err>>
    /\ UNCHANGED <<adapter, maxResults, requests, fate, out, inflight, queried>>
    /\ UNCHANGED <<phoneVars, ipVars>>

\* await res.text() / await res.json() rejects while reading the body
BodyRejects(e) ==
    /\ pc = "body"
    /\ Return(catch(adapter, e), e)
    /\ UNCHANGED <<adapter, maxResults, requests, res, fate, out, inflight,
                   queried>>
    /\ UNCHANGED <<phoneVars, ipVars>>

\* the body has been read: res.text() resolves with the page, res.json()
\* resolves with the parsed document or rejects with a SyntaxError
BodyResolves ==
    /\ pc = "body"
    /\ IF adapter = "duckDuckGoSearch"
       THEN Return([settled |-> "resolved",
                    value |-> extractResults(res.body.page, maxResults)], err)
       ELSE IF res.body.json = "invalid"
            THEN Return(catch(adapter, SyntaxError), SyntaxError)
            ELSE Return([settled |-> "resolved",
                         value |-> [json |-> res.body.json]], err)
    /\ UNCHANGED <<adapter, maxResults, requests, res, fate, out, inflight,
                   queried>>
    /\ UNCHANGED <<phoneVars, ipVars>>

DnsAdvance(r) ==
    /\ out' = r.out
    /\ queried' = queried \o r.asked
    /\ IF r.returned
       THEN Return([settled |-> "resolved", value |-> r.out], err)
       ELSE pc' = "dns" /\ UNCHANGED <<result, settled, err>>

\* dnsRecords(name) up to its first await that suspends
CallDnsRecords ==
    /\ pc = "idle"
    /\ adapter' = "dnsRecords"
    /\ \E f \in [RecordTypes -> Fates] :
           /\ fate' = f
           /\ LET r == dnsContinue(1, EmptyOut, f)
              IN  DnsAdvance(r) /\ inflight' = r.issued
    /\ UNCHANGED <<maxResults, requests, res>>
    /\ UNCHANGED <<phoneVars, ipVars>>

\* the resolution of t resolves: out[t] is stored and the function runs on
DnsResolves(t) ==
    /\ pc = "dns"
    /\ t \in inflight
    /\ fate[t] = "ok"
    /\ LET r == dnsContinue(IndexOf(t) + 1, (t :> Answer(t)) @@ out, fate)
       IN  DnsAdvance(r) /\ inflight' = (inflight \ {t}) \cup r.issued
    /\ UNCHANGED <<adapter, maxResults, requests, res, fate>>
    /\ UNCHANGED <<phoneVars, ipVars>>

\* the resolution of t rejects: .catch(() => []) turns it into []
DnsRejects(t) ==
    /\ pc = "dns"
    /\ t \in inflight
    /\ fate[t] = "reject"
    /\ LET r == dnsContinue(IndexOf(t) + 1, (t :> dnsRejectedValue(t)) @@ out, fate)
       IN  DnsAdvance(r) /\ inflight' = (inflight \ {t}) \cup r.issued
    /\ UNCHANGED <<adapter, maxResults, requests, res, fate>>
    /\ UNCHANGED <<phoneVars, ipVars>>

Next ==
    \/ \E m \in 0..MaxResultsBound : CallDuckDuckGoSearch(m)
    \/ CallIpGeolocation
    \/ \E kind \in {"ip", "domain"} : CallRdapLookup(kind)
    \/ \E e \in FetchErrors : FetchRejects(e)
    \/ FetchResolves
    \/ \E e \in BodyErrors : BodyRejects(e)
    \/ BodyResolves
    \/ CallDnsRecords
    \/ \E t \in RecordTypes : DnsResolves(t)
    \/ \E t \in RecordTypes : DnsRejects(t)

Spec == Init /\ [][Next]_vars

(***************************************************************************)
(* normalizePhone applied to every raw input, then to its own e164         *)
(***************************************************************************)
InitPhone ==
    /\ raw \in RawInputs
    /\ norm = Pending
    /\ again = Pending
    /\ IPIdle
    /\ NetIdle

CallNormalizePhone ==
    /\ norm = Pending
    /\ norm' = normalizePhone(raw)
    /\ UNCHANGED <<raw, again, ipVars, netVars>>

CallNormalizePhoneAgain ==
    /\ norm # Pending
    /\ norm # Null
    /\ again = Pending
    /\ again' = normalizePhone(norm.e164)
    /\ UNCHANGED <<raw, norm, ipVars, netVars>>

NextPhone == CallNormalizePhone \/ CallNormalizePhoneAgain

SpecPhone == InitPhone /\ [][NextPhone]_vars

(***************************************************************************)
(* looksLikeIP applied to every query                                      *)
(***************************************************************************)
InitIP ==
    /\ q \in Queries
    /\ isIP = Pending
    /\ PhoneIdle
    /\ NetIdle

CallLooksLikeIP ==
    /\ isIP = Pending
    /\ isIP' = looksLikeIP(q)
    /\ UNCHANGED <<q, phoneVars, netVars>>

NextIP == CallLooksLikeIP

SpecIP == InitIP /\ [][NextIP]_vars

(***************************************************************************)
(* Properties                                                              *)
(***************************************************************************)
Min(a, b) == IF a <= b THEN a ELSE b

Placeholder(a, e) ==
    CASE a = "duckDuckGoSearch" -> <<>>
      [] a = "ipGeolocation" -> [status |-> "fail", message |-> e]
      [] a = "rdapLookup" -> Null

\* C1: an adapter call that has returned has resolved, never rejected; when a
\* transport primitive failed, the value is the adapter's placeholder: [] for
\* duckDuckGoSearch, {status: "fail", message} for ipGeolocation, null for
\* rdapLookup, and [] under every failed record type for dnsRecords.
C1_AdaptersNeverReject ==
    pc = "done" =>
        /\ settled = "resolved"
        /\ (adapter \in HttpAdapters /\ err # "none")
               => result = Placeholder(adapter, err)
        /\ adapter = "dnsRecords"
               => \A t \in RecordTypes :
                      fate[t] \in {"reject", "throw"} => result[t] = <<>>

C1_Witness ==
    /\ pc = "done"
    /\ adapter = "ipGeolocation"
    /\ err \in FetchErrors
    /\ result = [status |-> "fail", message |-> err]

\* C2: the mapping dnsRecords returns has exactly the six keys; under each
\* key is the resolver's answer when that resolution succeeded and [] when
\* it failed, whatever happened to the other five.
C2_DnsTotalMapping ==
    (pc = "done" /\ adapter = "dnsRecords") =>
        /\ DOMAIN result = RecordTypes
        /\ \A t \in RecordTypes :
               result[t] = IF fate[t] = "ok" THEN Answer(t) ELSE <<>>

C2_Witness ==
    /\ pc = "done"
    /\ adapter = "dnsRecords"
    /\ fate["MX"] = "reject"
    /\ fate["A"] = "ok"
    /\ fate["TXT"] = "throw"
    /\ result["MX"] = <<>>
    /\ result["A"] = Answer("A")

\* C3: whenever the response was non-2xx, each HTTP adapter returns its
\* failure value and nothing taken from the body.
C3_NonOkIsFailure ==
    (pc = "done" /\ adapter \in HttpAdapters /\ res # NoResponse /\ ~res.ok) =>
        result \in {Placeholder(adapter, e) :
                        e \in FetchErrors \cup BodyErrors \cup {SyntaxError}}

\* C4: rdapLookup issues exactly one request, resolves, and returns the
\* parsed body exactly when the response was OK and its body was read and
\* parsed; otherwise it returns null.
C4_RdapSingleAttempt ==
    (pc = "done" /\ adapter = "rdapLookup") =>
        /\ Len(requests) = 1
        /\ settled = "resolved"
        /\ result = IF /\ res # NoResponse
                       /\ res.ok
                       /\ res.body.json # "invalid"
                       /\ err = "none"
                    THEN [json |-> res.body.json]
                    ELSE Null

C4_Witness ==
    /\ pc = "done"
    /\ adapter = "rdapLookup"
    /\ res # NoResponse
    /\ ~res.ok
    /\ res.body.json # "invalid"
    /\ result = Null

\* C5: normalizing the e164 form of a normalized input gives a record with
\* the same e164 form.
C5_Idempotent ==
    again # Pending => (again # Null /\ again.e164 = norm.e164)

\* C6: the cleaned field has only digits and "+", does not begin with two
\* "+", and does not begin with "00".
C6_CleanedShape ==
    (norm # Pending /\ norm # Null) =>
        /\ \A i \in 1..Len(norm.cleaned) : norm.cleaned[i] \in Digits \cup {"+"}
        /\ ~startsWith(norm.cleaned, <<"+", "+">>)
        /\ ~startsWith(norm.cleaned, <<"0", "0">>)

IsDigit(c) == c \in Digits

C7_Shape(plusPresent(_)) ==
    norm # Pending =>
        IF raw = NullRaw \/ raw = <<>> THEN norm = Null
        ELSE /\ norm # Null
             /\ norm.digits = SelectSeq(norm.cleaned, IsDigit)
             /\ norm.e164 = IF plusPresent(norm.cleaned)
                            THEN <<"+">> \o norm.digits
                            ELSE norm.digits

PlusAnywhere(s) == \E i \in 1..Len(s) : s[i] = "+"
PlusFirst(s) == Len(s) >= 1 /\ s[1] = "+"

\* C7 as stated: null for empty or null input; otherwise digits is cleaned
\* without its non-digits and e164 is "+" and digits when cleaned contains a
\* "+", digits alone otherwise.
C7_PlusPresentAnywhere == C7_Shape(PlusAnywhere)

\* C7 as amended: null for empty or null input; otherwise digits is cleaned
\* without its non-digits and e164 is "+" and digits when cleaned begins
\* with "+", digits alone otherwise.
C7_PlusLeading == C7_Shape(PlusFirst)

C7_Witness ==
    /\ norm # Pending
    /\ norm # Null
    /\ PlusAnywhere(norm.cleaned)
    /\ ~PlusFirst(norm.cleaned)
    /\ norm.digits # <<>>
    /\ norm.e164 = norm.digits

\* The result containers of a page, by the position of their opener, and the
\* hrefs of the anchors inside each.
ContainerStarts(p) == {i \in 1..Len(p) : p[i] = Div}
ContainerEnd(p, i) ==
    LET later == {j \in ContainerStarts(p) : j > i}
    IN  IF later = {} THEN Len(p)
        ELSE (CHOOSE j \in later : \A k \in later : j <= k) - 1
ContainerHrefs(p, i) == {p[j].href : j \in (i + 1)..ContainerEnd(p, i)} \ {"none"}
ContainersWithHref(p) == {i \in ContainerStarts(p) : ContainerHrefs(p, i) # {}}
NthWithHref(p, n) ==
    CHOOSE i \in ContainersWithHref(p) :
        Cardinality({j \in ContainersWithHref(p) : j <= i}) = n

\* C8: on a page that was read, duckDuckGoSearch returns one entry for each of
\* the first min(maxResults, k) containers that have a href, in page order.
C8_FirstMaxResults ==
    (pc = "done" /\ adapter = "duckDuckGoSearch" /\ err = "none") =>
        LET p == res.body.page
            k == Cardinality(ContainersWithHref(p))
        IN  /\ Len(result) = Min(maxResults, k)
            /\ \A n \in 1..Len(result) :
                   result[n].link \in ContainerHrefs(p, NthWithHref(p, n))

C8_Witness ==
    /\ pc = "done"
    /\ adapter = "duckDuckGoSearch"
    /\ err = "none"
    /\ maxResults = 1
    /\ ContainersWithHref(res.body.page) = {1, 3}
    /\ res.body.page[2].href = "h1"
    /\ res.body.page[4].href = "h2"
    /\ Len(result) = 1
    /\ result[1].link = "h1"

\* Four non-empty groups of digits separated by three dots.
DottedQuad(s) ==
    \E i, j, k \in 1..Len(s) :
        /\ 1 < i /\ i + 1 < j /\ j + 1 < k /\ k < Len(s)
        /\ \A n \in 1..Len(s) :
               IF n \in {i, j, k} THEN s[n] = "." ELSE s[n] \in Digits

\* C9: looksLikeIP returns a boolean for every query: true for four
\* dot-separated groups of digits, true for a query with a colon, false for
\* every other query.
C9_LooksLikeIP ==
    isIP # Pending =>
        /\ isIP.value \in BOOLEAN
        /\ isIP.value = (DottedQuad(q) \/ \E i \in 1..Len(q) : q[i] = ":")

C9_Witness ==
    /\ isIP # Pending
    /\ isIP.value
    /\ ~DottedQuad(q)
    /\ q = <<"a", ":", "1">>

\* C10: the record types are queried in the fixed order; a type is queried
\* only when every earlier type has settled, so at most one resolution is in
\* flight; while a resolution hangs no later type is queried and the call
\* does not return.
C10_Sequential ==
    adapter = "dnsRecords" =>
        /\ Cardinality(inflight) <= 1
        /\ Len(queried) <= Len(Order)
        /\ queried = SubSeq(Order, 1, Len(queried))
        /\ \A i \in 1..Len(queried) : \A j \in 1..(i - 1) :
               Order[j] \in DOMAIN out /\ Order[j] \notin inflight
        /\ \A t \in inflight :
               /\ t = queried[Len(queried)]
               /\ fate[t] = "hang" => pc # "done"
        /\ pc = "done" => inflight = {}

C10_Witness ==
    /\ adapter = "dnsRecords"
    /\ inflight = {"MX"}
    /\ fate["MX"] = "hang"
    /\ queried = <<"A", "AAAA", "MX">>
    /\ DOMAIN out = {"A", "AAAA"}
    /\ pc = "dns"

====
